---------------------------- MODULE Spec2Model ----------------------------
(***************************************************************************)
(* The utilities of the two notebooks, context_manager.ipynb and           *)
(* decorators.ipynb, as one sequential program: the notebook picks one     *)
(* utility, calls it with inputs drawn from small sets, and the call runs  *)
(* statement by statement until control is back at the caller.             *)
(*                                                                         *)
(* Everything the wrappers do to the outside world (connect, commit,       *)
(* rollback, close, print, sleep, calls of the wrapped callable) is        *)
(* appended to `events` in program order, so orderings and counts are      *)
(* read off that trace.  The outcome of every call the wrappers make to    *)
(* the outside world that can fail while the wrapper is still responsible  *)
(* for a resource (connect, open, the block of the with statement, commit, *)
(* session.get, the wrapped callable) is chosen nondeterministically.      *)
(* rollback and close are taken to return normally.                        *)
(***************************************************************************)
EXTENDS Integers, Sequences, FiniteSets, TLC

VARIABLES
    cell,            \* the utility whose call is running ("none" between calls)
    pc,              \* the statement the running call is at
    events,          \* trace of the observable operations of the running call
    exc,             \* the exception propagating inside the wrapper
    raised,          \* the exception that reached the caller (NoExc if none)
    returned,        \* the value the call returned to the caller
    open,            \* the handles (connection, file, sessions, responses) now open
    conn,            \* db_connection: local `conn`
    file,            \* open_file: local `file`
    self,            \* AsyncWeatherFetcher: the fields session and response
    session,         \* async_http_client: local `session`
    args,            \* retry.wrapped, log.wrapper: the argument of the call
    tries,           \* retry: parameter `tries`
    delay,           \* retry: parameter `delay`
    attempt,         \* retry.wrapped: loop variable `attempt` (-1 before the loop)
    draws,           \* cube: draws[i] is whether `random() < 0.5` holds in the i-th call
    last_exception,  \* retry.wrapped: local `last_exception`
    result,          \* log.wrapper: local `result`
    tpc,             \* shared fetcher: where each task using the one instance is
    texc,            \* shared fetcher: the exception each task's block raised
    closing,         \* shared fetcher: the session whose close each task awaits
    cache,           \* lru_cache: the entries, least recently used first
    execs,           \* calculations: how often its body ran, by argument
    used,            \* how many distinct arguments the cached function was called with
    run              \* the current run of consecutive calls with one argument

common == <<cell, pc, events, exc, raised, returned, open>>
dbVars == <<conn>>
fileVars == <<file>>
weatherVars == <<self>>
httpVars == <<session>>
retryVars == <<tries, delay, attempt, draws, last_exception>>
logVars == <<result>>
sharedVars == <<tpc, texc, closing>>
memoVars == <<cache, execs, used, run>>

vars == <<common, dbVars, fileVars, weatherVars, httpVars, args, retryVars, logVars, sharedVars, memoVars>>

\* What a step of one utility leaves alone: the locals of the others.
notDb == <<fileVars, weatherVars, httpVars, args, retryVars, logVars, sharedVars, memoVars>>
notFile == <<dbVars, weatherVars, httpVars, args, retryVars, logVars, sharedVars, memoVars>>
notWeather == <<dbVars, fileVars, httpVars, args, retryVars, logVars, sharedVars, memoVars>>
notHttp == <<dbVars, fileVars, weatherVars, args, retryVars, logVars, sharedVars, memoVars>>
notRetry == <<dbVars, fileVars, weatherVars, httpVars, logVars, sharedVars, memoVars>>
notLog == <<dbVars, fileVars, weatherVars, httpVars, retryVars, sharedVars, memoVars>>

-----------------------------------------------------------------------------
(* Values *)

None == "None"

\* An exception object: its class and a serial telling two objects apart.
Exc(c, n) == [cls |-> c, at |-> n]
NoExc == Exc("None", 0)

\* A returned value, or nothing returned.
Ret(v) == [has |-> TRUE, v |-> v]
NoResult == [has |-> FALSE, v |-> 0]

\* One observable operation: its name, the handle or text it concerns, and
\* two numbers (for retry's log line: attempt number and configured tries).
Ev(op, arg, n, m) == [op |-> op, arg |-> arg, n |-> n, m |-> m]
Op(op, arg) == Ev(op, arg, 0, 0)

OpsOf(evs, op) == SelectSeq(evs, LAMBDA e : e.op = op)
Count(evs, op) == Len(OpsOf(evs, op))
Before(evs, a, b) == /\ Count(evs, a) > 0 /\ Count(evs, b) > 0
                     /\ \A i, j \in 1..Len(evs) : (evs[i].op = a /\ evs[j].op = b) => i < j
Min(a, b) == IF a < b THEN a ELSE b

-----------------------------------------------------------------------------
(* Exception classes *)

\* sqlite3.Error and its subclasses: what `except sqlite3.Error` catches.
SqliteErrors == {"sqlite3.OperationalError", "sqlite3.IntegrityError"}
\* Subclasses of Exception: what `except Exception` catches.
Exceptions == SqliteErrors \cup {"ValueError", "TypeError", "OSError", "aiohttp.ClientError"}
\* asyncio.CancelledError derives from BaseException, not from Exception.
Cancelled == "asyncio.CancelledError"

IsSqliteError(e) == e.cls \in SqliteErrors
IsException(e) == e.cls \in Exceptions

-----------------------------------------------------------------------------
(* Tasks that use one AsyncWeatherFetcher instance *)

Tasks == {1, 2}
NoTasks == [t \in Tasks |-> "none"]

-----------------------------------------------------------------------------
(* The arguments of the cached function *)

MaxKey == 129
Keys == 0..MaxKey
NoRun == [key |-> -1, fresh |-> FALSE, execs |-> 0]

-----------------------------------------------------------------------------
(* The caller *)

\* Control is back at the caller: the call returned r or raised e.
Leave(e, r) ==
    /\ pc' = "left"
    /\ raised' = e
    /\ returned' = r
    /\ exc' = NoExc

\* The caller goes on to the next cell: the finished call's objects are gone.
Finish ==
    /\ pc = "left"
    /\ cell' = "none" /\ pc' = "idle"
    /\ events' = <<>> /\ exc' = NoExc /\ raised' = NoExc /\ returned' = NoResult
    /\ open' = {}
    /\ conn' = None /\ file' = None
    /\ self' = [session |-> None, response |-> None]
    /\ session' = None
    /\ args' = 0 /\ tries' = 0 /\ delay' = 0 /\ attempt' = -1 /\ draws' = <<>>
    /\ last_exception' = NoExc /\ result' = NoResult
    /\ tpc' = NoTasks /\ texc' = [t \in Tasks |-> NoExc] /\ closing' = [t \in Tasks |-> None]
    /\ cache' = <<>> /\ execs' = [k \in Keys |-> 0] /\ used' = 0 /\ run' = NoRun

-----------------------------------------------------------------------------
(* db_connection(db_path) *)

\* What sqlite3.connect, the block and conn.commit can raise.
ConnectErrors == {Exc("sqlite3.OperationalError", 0), Exc("TypeError", 0)}
DbBlockErrors == {Exc("sqlite3.OperationalError", 1), Exc("sqlite3.IntegrityError", 1),
                  Exc("ValueError", 1)}
CommitErrors == {Exc("sqlite3.OperationalError", 2)}

\* conn = None, and the try statement is entered
DbStart ==
    /\ cell = "none" /\ pc = "idle"
    /\ cell' = "db" /\ pc' = "db_connect"
    /\ conn' = None
    /\ UNCHANGED <<events, exc, raised, returned, open, notDb>>

\* A slip: no except clause at all, only try/finally.
DbNoHandlerFor(e) == "db_finally"

\* Where an exception raised in the try body goes: `except sqlite3.Error`
\* takes the database errors, every other exception goes straight to finally.
DbHandlerFor(e) == IF IsSqliteError(e) THEN "db_except" ELSE "db_finally"

\* conn = sqlite3.connect(db_path); yield conn
DbConnect ==
    /\ cell = "db" /\ pc = "db_connect"
    /\ \/ /\ conn' = "conn"
          /\ open' = open \cup {"conn"}
          /\ events' = Append(events, Op("connect", "conn"))
          /\ pc' = "db_yield"
          /\ UNCHANGED exc
       \/ \E e \in ConnectErrors :
            /\ events' = Append(events, Op("connect_failed", e.cls))
            /\ exc' = e
            /\ pc' = DbHandlerFor(e)
            /\ UNCHANGED <<conn, open>>
    /\ UNCHANGED <<cell, raised, returned, notDb>>

\* The block of the with statement, run while the generator waits at yield.
DbBlock ==
    /\ cell = "db" /\ pc = "db_yield"
    /\ \/ /\ events' = Append(events, Op("block", None))
          /\ pc' = "db_commit"
          /\ UNCHANGED exc
       \/ \E e \in DbBlockErrors :
            /\ events' = Append(events, Op("block_raised", e.cls))
            /\ exc' = e
            /\ pc' = DbHandlerFor(e)
    /\ UNCHANGED <<cell, raised, returned, open, conn, notDb>>

\* A slip: the commit after the block is left out.
DbCommitLeftOut ==
    /\ cell = "db" /\ pc = "db_commit"
    /\ pc' = "db_finally"
    /\ UNCHANGED <<cell, events, exc, raised, returned, open, conn, notDb>>

\* conn.commit()
DbCommit ==
    /\ cell = "db" /\ pc = "db_commit"
    /\ \/ /\ events' = Append(events, Op("commit", conn))
          /\ pc' = "db_finally"
          /\ UNCHANGED exc
       \/ \E e \in CommitErrors :
            /\ events' = Append(events, Op("commit_failed", conn))
            /\ exc' = e
            /\ pc' = DbHandlerFor(e)
    /\ UNCHANGED <<cell, raised, returned, open, conn, notDb>>

\* A slip: the rollback without the `if conn` test.
DbExceptUnguarded ==
    /\ cell = "db" /\ pc = "db_except"
    /\ events' = Append(events, Op("rollback", conn))
    /\ pc' = "db_finally"
    /\ UNCHANGED <<cell, exc, raised, returned, open, conn, notDb>>

\* except sqlite3.Error: if conn: conn.rollback(); raise
DbExcept ==
    /\ cell = "db" /\ pc = "db_except"
    /\ events' = IF conn # None THEN Append(events, Op("rollback", conn)) ELSE events
    /\ pc' = "db_finally"
    /\ UNCHANGED <<cell, exc, raised, returned, open, conn, notDb>>

\* finally: if conn: conn.close(); the exception in flight, if any, then
\* leaves the generator and the with statement re-raises it in the caller.
DbFinally ==
    /\ cell = "db" /\ pc = "db_finally"
    /\ events' = IF conn # None THEN Append(events, Op("close", conn)) ELSE events
    /\ open' = IF conn # None THEN open \ {conn} ELSE open
    /\ Leave(exc, NoResult)
    /\ UNCHANGED <<cell, conn, notDb>>

-----------------------------------------------------------------------------
(* open_file(path, mode) *)

OpenErrors == {Exc("OSError", 0)}
FileBlockErrors == {Exc("ValueError", 1), Exc("OSError", 1)}

\* file = None, and the try statement is entered
FileStart ==
    /\ cell = "none" /\ pc = "idle"
    /\ cell' = "file" /\ pc' = "file_open"
    /\ file' = None
    /\ UNCHANGED <<events, exc, raised, returned, open, notFile>>

\* file = open(path, mode); yield file
FileOpen ==
    /\ cell = "file" /\ pc = "file_open"
    /\ \/ /\ file' = "file"
          /\ open' = open \cup {"file"}
          /\ events' = Append(events, Op("open", "file"))
          /\ pc' = "file_yield"
          /\ UNCHANGED exc
       \/ \E e \in OpenErrors :
            /\ events' = Append(events, Op("open_failed", e.cls))
            /\ exc' = e
            /\ pc' = "file_finally"
            /\ UNCHANGED <<file, open>>
    /\ UNCHANGED <<cell, raised, returned, notFile>>

\* The block of the with statement, run while the generator waits at yield.
FileBlock ==
    /\ cell = "file" /\ pc = "file_yield"
    /\ \/ /\ events' = Append(events, Op("block", None))
          /\ UNCHANGED exc
       \/ \E e \in FileBlockErrors :
            /\ events' = Append(events, Op("block_raised", e.cls))
            /\ exc' = e
    /\ pc' = "file_finally"
    /\ UNCHANGED <<cell, raised, returned, open, file, notFile>>

\* A slip: the close after the yield, outside any finally clause.
FileCloseWithoutFinally ==
    /\ cell = "file" /\ pc = "file_finally"
    /\ events' = IF file # None /\ exc = NoExc THEN Append(events, Op("close", file)) ELSE events
    /\ open' = IF file # None /\ exc = NoExc THEN open \ {file} ELSE open
    /\ Leave(exc, NoResult)
    /\ UNCHANGED <<cell, file, notFile>>

\* finally: if file: file.close()
FileFinally ==
    /\ cell = "file" /\ pc = "file_finally"
    /\ events' = IF file # None THEN Append(events, Op("close", file)) ELSE events
    /\ open' = IF file # None THEN open \ {file} ELSE open
    /\ Leave(exc, NoResult)
    /\ UNCHANGED <<cell, file, notFile>>

-----------------------------------------------------------------------------
(* AsyncWeatherFetcher *)

\* What `await self.session.get(url)` and the block can raise.
GetErrors == {Exc("aiohttp.ClientError", 0), Exc(Cancelled, 0)}
WeatherBlockErrors == {Exc("ValueError", 1), Exc(Cancelled, 1)}

\* __init__: self.session = None; self.response = None
WeatherInit ==
    /\ cell = "none" /\ pc = "idle"
    /\ cell' = "weather" /\ pc' = "w_aenter"
    /\ self' = [session |-> None, response |-> None]
    /\ UNCHANGED <<events, exc, raised, returned, open, notWeather>>

\* __aenter__: self.session = aiohttp.ClientSession(), up to the await of get
WeatherEnterSession ==
    /\ cell = "weather" /\ pc = "w_aenter"
    /\ self' = [self EXCEPT !.session = "wsession"]
    /\ open' = open \cup {"wsession"}
    /\ events' = Append(events, Op("open", "wsession"))
    /\ pc' = "w_get"
    /\ UNCHANGED <<cell, exc, raised, returned, notWeather>>

\* __aenter__: self.response = await self.session.get(url); return self.
\* An exception of get leaves __aenter__, and the async with statement
\* passes it on without calling __aexit__.
WeatherEnterGet ==
    /\ cell = "weather" /\ pc = "w_get"
    /\ \/ /\ self' = [self EXCEPT !.response = "wresponse"]
          /\ open' = open \cup {"wresponse"}
          /\ events' = Append(events, Op("get", "wresponse"))
          /\ pc' = "w_block"
          /\ UNCHANGED <<exc, raised, returned>>
       \/ \E e \in GetErrors :
            /\ events' = Append(events, Op("get_failed", e.cls))
            /\ Leave(e, NoResult)
            /\ UNCHANGED <<self, open>>
    /\ UNCHANGED <<cell, notWeather>>

\* The block of the async with statement.
WeatherBlock ==
    /\ cell = "weather" /\ pc = "w_block"
    /\ \/ /\ events' = Append(events, Op("block", None))
          /\ UNCHANGED exc
       \/ \E e \in WeatherBlockErrors :
            /\ events' = Append(events, Op("block_raised", e.cls))
            /\ exc' = e
    /\ pc' = "w_aexit"
    /\ UNCHANGED <<cell, raised, returned, open, self, notWeather>>

\* __aexit__: if self.response: self.response.close()
WeatherExitResponse ==
    /\ cell = "weather" /\ pc = "w_aexit"
    /\ events' = IF self.response # None
                 THEN Append(events, Op("close", self.response)) ELSE events
    /\ open' = IF self.response # None THEN open \ {self.response} ELSE open
    /\ pc' = "w_aexit_session"
    /\ UNCHANGED <<cell, exc, raised, returned, self, notWeather>>

\* __aexit__: if self.session: await self.session.close()  (the call is made)
WeatherExitSession ==
    /\ cell = "weather" /\ pc = "w_aexit_session"
    /\ events' = IF self.session # None
                 THEN Append(events, Op("close_begin", self.session)) ELSE events
    /\ pc' = IF self.session # None THEN "w_closing" ELSE "w_aexit_log"
    /\ UNCHANGED <<cell, exc, raised, returned, open, self, notWeather>>

\* __aexit__: the awaited close of the session completes
WeatherSessionClosed ==
    /\ cell = "weather" /\ pc = "w_closing"
    /\ events' = Append(events, Op("close", self.session))
    /\ open' = open \ {self.session}
    /\ pc' = "w_aexit_log"
    /\ UNCHANGED <<cell, exc, raised, returned, self, notWeather>>

\* A slip: __aexit__ returns True after logging, which suppresses the exception.
WeatherExitLogSuppressing ==
    /\ cell = "weather" /\ pc = "w_aexit_log"
    /\ events' = IF exc # NoExc THEN Append(events, Op("print_error", exc.cls)) ELSE events
    /\ Leave(NoExc, NoResult)
    /\ UNCHANGED <<cell, open, self, notWeather>>

\* __aexit__: if exc_type: print(error); it returns None, so the exception
\* of the block, if any, goes on to the caller.
WeatherExitLog ==
    /\ cell = "weather" /\ pc = "w_aexit_log"
    /\ events' = IF exc # NoExc THEN Append(events, Op("print_error", exc.cls)) ELSE events
    /\ Leave(exc, NoResult)
    /\ UNCHANGED <<cell, open, self, notWeather>>

\* Where the caller stands relative to the `async with` block when it calls
\* a method of the fetcher: before entering, inside the block, after the exit.
WeatherPhase == CASE pc = "w_aenter" -> "before"
                  [] pc = "w_block" -> "inside"
                  [] pc = "left" -> "after"
                  [] OTHER -> "suspended"

\* get_weather: if not self.response: raise RuntimeError(...);
\* return await self.response.text().  The caller calls it at most once
\* before the block, once inside it and once after it.
WeatherGetWeather ==
    /\ cell = "weather" /\ WeatherPhase # "suspended"
    /\ \A i \in 1..Len(events) :
          events[i].op \in {"get_weather_raised", "get_weather_read"} => events[i].arg # WeatherPhase
    /\ events' = IF self.response = None
                 THEN Append(events, Op("get_weather_raised", WeatherPhase))
                 ELSE Append(events, Op("get_weather_read", WeatherPhase))
    /\ UNCHANGED <<cell, pc, exc, raised, returned, open, self, notWeather>>

-----------------------------------------------------------------------------
(* async_http_client(url) *)

HttpBlockErrors == {Exc("aiohttp.ClientError", 1), Exc("ValueError", 1), Exc(Cancelled, 1)}

\* The coroutine is called: nothing of its body has run yet.
HttpStart ==
    /\ cell = "none" /\ pc = "idle"
    /\ cell' = "http" /\ pc' = "h_aenter"
    /\ session' = None
    /\ UNCHANGED <<events, exc, raised, returned, open, notHttp>>

\* session = aiohttp.ClientSession(); try: print(opening); yield session
HttpEnter ==
    /\ cell = "http" /\ pc = "h_aenter"
    /\ session' = "hsession"
    /\ open' = open \cup {"hsession"}
    /\ events' = events \o <<Op("open", "hsession"), Op("print_opening", "hsession")>>
    /\ pc' = "h_yield"
    /\ UNCHANGED <<cell, exc, raised, returned, notHttp>>

\* A slip: an except clause for the client's own errors only.
HttpHandlerForClientError(e) == IF e.cls = "aiohttp.ClientError" THEN "h_except" ELSE "h_finally"

\* Where an exception raised at the yield goes: `except Exception` takes the
\* subclasses of Exception, anything else goes straight to finally.
HttpHandlerFor(e) == IF IsException(e) THEN "h_except" ELSE "h_finally"

\* The block of the async with statement, run while the generator waits at yield.
HttpBlock ==
    /\ cell = "http" /\ pc = "h_yield"
    /\ \/ /\ events' = Append(events, Op("block", None))
          /\ pc' = "h_finished"
          /\ UNCHANGED exc
       \/ \E e \in HttpBlockErrors :
            /\ events' = Append(events, Op("block_raised", e.cls))
            /\ exc' = e
            /\ pc' = HttpHandlerFor(e)
    /\ UNCHANGED <<cell, raised, returned, open, session, notHttp>>

\* print('Session finished successfully')
HttpFinished ==
    /\ cell = "http" /\ pc = "h_finished"
    /\ events' = Append(events, Op("print_finished", session))
    /\ pc' = "h_finally"
    /\ UNCHANGED <<cell, exc, raised, returned, open, session, notHttp>>

\* except Exception as e: print('Session error'); raise
HttpExcept ==
    /\ cell = "http" /\ pc = "h_except"
    /\ events' = Append(events, Op("print_error", exc.cls))
    /\ pc' = "h_finally"
    /\ UNCHANGED <<cell, exc, raised, returned, open, session, notHttp>>

\* finally: await session.close()  (the call is made)
HttpFinally ==
    /\ cell = "http" /\ pc = "h_finally"
    /\ events' = Append(events, Op("close_begin", session))
    /\ pc' = "h_closing"
    /\ UNCHANGED <<cell, exc, raised, returned, open, session, notHttp>>

\* finally: the awaited close completes; print('Session has been closed');
\* the exception in flight, if any, then leaves the generator and the
\* async with statement re-raises it in the caller.
HttpClosed ==
    /\ cell = "http" /\ pc = "h_closing"
    /\ events' = events \o <<Op("close", session), Op("print_closed", session)>>
    /\ open' = open \ {session}
    /\ Leave(exc, NoResult)
    /\ UNCHANGED <<cell, session, notHttp>>

-----------------------------------------------------------------------------
(* The decorated function of both decorator cells *)

MaxTries == 3
MaxArg == 2

\* cube(number): number ** 3, or number * number * number
Cube(number) == number * number * number

ArgValues == 0..MaxArg

-----------------------------------------------------------------------------
(* retry(tries, delay)(func): the function `wrapped` *)

TriesValues == -1..MaxTries
DelayValues == {0, 1}
\* The outcomes of `random() < 0.5` in the successive calls of cube.
DrawValues == [1..(MaxTries + 1) -> BOOLEAN]

\* The exception the call of func raises at loop index i: a new object each time.
AttemptError(i) == Exc("ValueError", i + 1)

\* wrapped of retry(tries, delay)(cube) is called: last_exception = None
RetryStart ==
    /\ cell = "none" /\ pc = "idle"
    /\ \E t \in TriesValues, d \in DelayValues, a \in ArgValues, r \in DrawValues :
         /\ tries' = t /\ delay' = d /\ args' = a /\ draws' = r
    /\ cell' = "retry" /\ pc' = "r_for"
    /\ last_exception' = NoExc
    /\ attempt' = -1
    /\ UNCHANGED <<events, exc, raised, returned, open, notRetry>>

\* A slip: range(tries + 1).
InRangeInclusive(i, n) == 0 <= i /\ i <= n

\* range(tries): whether index i is in it
InRange(i, n) == 0 <= i /\ i < n

\* for attempt in range(tries): the next index, or the loop is over
RetryFor ==
    /\ cell = "retry" /\ pc = "r_for"
    /\ IF InRange(attempt + 1, tries)
       THEN attempt' = attempt + 1 /\ pc' = "r_call"
       ELSE attempt' = attempt /\ pc' = "r_raise"
    /\ UNCHANGED <<cell, events, exc, raised, returned, open, args, tries, delay,
                   draws, last_exception, notRetry>>

\* try: return func(args), where func is cube: it raises ValueError if
\* random() < 0.5 and returns number ** 3 otherwise
RetryCall ==
    /\ cell = "retry" /\ pc = "r_call"
    /\ \/ /\ ~draws[attempt + 1]
          /\ events' = Append(events, Ev("call", "ok", attempt + 1, Cube(args)))
          /\ Leave(NoExc, Ret(Cube(args)))
       \/ /\ draws[attempt + 1]
          /\ events' = Append(events, Ev("call", "raised", attempt + 1, 0))
          /\ exc' = AttemptError(attempt)
          /\ pc' = "r_except"
          /\ UNCHANGED <<raised, returned>>
    /\ UNCHANGED <<cell, open, args, retryVars, notRetry>>

\* A slip: if attempt < tries.
AnyAttempt(i, n) == i < n

\* if attempt < tries - 1
NotLastAttempt(i, n) == i < n - 1

\* A slip: only the first exception is kept.
FirstSeen(old, e) == IF old = NoExc THEN e ELSE old

\* last_exception = e
LastSeen(old, e) == e

\* A slip: the log line carries the 0-based loop index.
RetryExceptZeroBased ==
    /\ cell = "retry" /\ pc = "r_except"
    /\ last_exception' = LastSeen(last_exception, exc)
    /\ events' = events \o <<Ev("print_failed", exc.cls, attempt, tries)>>
                        \o (IF NotLastAttempt(attempt, tries)
                            THEN <<Ev("sleep", "", delay, 0)>> ELSE <<>>)
    /\ exc' = NoExc
    /\ pc' = "r_for"
    /\ UNCHANGED <<cell, raised, returned, open, args, tries, delay, attempt, draws, notRetry>>

\* except Exception as e: last_exception = e; print(...);
\* if attempt < tries - 1: sleep(delay)
RetryExcept ==
    /\ cell = "retry" /\ pc = "r_except"
    /\ last_exception' = LastSeen(last_exception, exc)
    /\ events' = events \o <<Ev("print_failed", exc.cls, attempt + 1, tries)>>
                        \o (IF NotLastAttempt(attempt, tries)
                            THEN <<Ev("sleep", "", delay, 0)>> ELSE <<>>)
    /\ exc' = NoExc
    /\ pc' = "r_for"
    /\ UNCHANGED <<cell, raised, returned, open, args, tries, delay, attempt, draws, notRetry>>

\* What `raise last_exception` raises: last_exception, or, when it is None,
\* the TypeError of raising something that is no exception.
RaiseOf(e) == IF e = NoExc THEN Exc("TypeError", 0) ELSE e

\* raise last_exception
RetryRaise ==
    /\ cell = "retry" /\ pc = "r_raise"
    /\ Leave(RaiseOf(last_exception), NoResult)
    /\ UNCHANGED <<cell, events, open, args, retryVars, notRetry>>

-----------------------------------------------------------------------------
(* log(coroutine): the coroutine function `wrapper` *)

LogErrors == {Exc("ValueError", 1), Exc(Cancelled, 1)}

\* wrapper of log(cube) is called
LogStart ==
    /\ cell = "none" /\ pc = "idle"
    /\ \E a \in ArgValues : args' = a
    /\ cell' = "log" /\ pc' = "l_print_start"
    /\ result' = NoResult
    /\ UNCHANGED <<events, exc, raised, returned, open, retryVars, notLog>>

\* print(f'Starting "{coroutine.__name__}" with args{args} and kwargs{kwargs}...')
LogPrintStart ==
    /\ cell = "log" /\ pc = "l_print_start"
    /\ events' = Append(events, Ev("print_start", "cube", args, 0))
    /\ pc' = "l_await"
    /\ UNCHANGED <<cell, exc, raised, returned, open, args, result, retryVars, notLog>>

\* A slip: the await inside try/except, the exception wrapped in a new one.
LogAwaitWrapping ==
    /\ cell = "log" /\ pc = "l_await"
    /\ \/ /\ events' = Append(events, Ev("call", "ok", args, Cube(args)))
          /\ result' = Ret(Cube(args))
          /\ pc' = "l_print_result"
          /\ UNCHANGED <<exc, raised, returned>>
       \/ \E e \in LogErrors :
            /\ events' = events \o <<Ev("call", "raised", args, 0), Ev("raise", e.cls, e.at, 0)>>
            /\ Leave(Exc("RuntimeError", 2), NoResult)
            /\ UNCHANGED result
    /\ UNCHANGED <<cell, open, args, retryVars, notLog>>

\* result = await coroutine(args); an exception of the coroutine
\* is not caught and leaves the wrapper.
LogAwait ==
    /\ cell = "log" /\ pc = "l_await"
    /\ \/ /\ events' = Append(events, Ev("call", "ok", args, Cube(args)))
          /\ result' = Ret(Cube(args))
          /\ pc' = "l_print_result"
          /\ UNCHANGED <<exc, raised, returned>>
       \/ \E e \in LogErrors :
            /\ events' = events \o <<Ev("call", "raised", args, 0), Ev("raise", e.cls, e.at, 0)>>
            /\ Leave(e, NoResult)
            /\ UNCHANGED result
    /\ UNCHANGED <<cell, open, args, retryVars, notLog>>

\* print(f'Result: {result}')
LogPrintResult ==
    /\ cell = "log" /\ pc = "l_print_result"
    /\ events' = Append(events, Ev("print_result", "", result.v, 0))
    /\ pc' = "l_return"
    /\ UNCHANGED <<cell, exc, raised, returned, open, args, result, retryVars, notLog>>

\* A slip: the return statement is missing.
LogReturnNothing ==
    /\ cell = "log" /\ pc = "l_return"
    /\ Leave(NoExc, NoResult)
    /\ UNCHANGED <<cell, events, open, args, result, retryVars, notLog>>

\* return result
LogReturn ==
    /\ cell = "log" /\ pc = "l_return"
    /\ Leave(NoExc, result)
    /\ UNCHANGED <<cell, events, open, args, result, retryVars, notLog>>

-----------------------------------------------------------------------------
(* The program *)

Init ==
    /\ cell = "none" /\ pc = "idle"
    /\ events = <<>> /\ exc = NoExc /\ raised = NoExc /\ returned = NoResult
    /\ open = {}
    /\ conn = None /\ file = None
    /\ self = [session |-> None, response |-> None]
    /\ session = None
    /\ args = 0 /\ tries = 0 /\ delay = 0 /\ attempt = -1 /\ draws = <<>>
    /\ last_exception = NoExc /\ result = NoResult
    /\ tpc = NoTasks /\ texc = [t \in Tasks |-> NoExc] /\ closing = [t \in Tasks |-> None]
    /\ cache = <<>> /\ execs = [k \in Keys |-> 0] /\ used = 0 /\ run = NoRun

Next ==
    \/ DbStart \/ DbConnect \/ DbBlock \/ DbCommit \/ DbExcept \/ DbFinally
    \/ FileStart \/ FileOpen \/ FileBlock \/ FileFinally
    \/ WeatherInit \/ WeatherEnterSession \/ WeatherEnterGet \/ WeatherBlock
    \/ WeatherExitResponse \/ WeatherExitSession \/ WeatherSessionClosed \/ WeatherExitLog
    \/ WeatherGetWeather
    \/ HttpStart \/ HttpEnter \/ HttpBlock \/ HttpFinished \/ HttpExcept
    \/ HttpFinally \/ HttpClosed
    \/ RetryStart \/ RetryFor \/ RetryCall \/ RetryExcept \/ RetryRaise
    \/ LogStart \/ LogPrintStart \/ LogAwait \/ LogPrintResult \/ LogReturn
    \/ Finish

Spec == Init /\ [][Next]_vars

-----------------------------------------------------------------------------
(* One AsyncWeatherFetcher instance used by two cooperative tasks, each in   *)
(* its own `async with` statement.  A task runs from one await to the next   *)
(* without interruption; at an await the other task may run.                 *)

notShared == <<dbVars, fileVars, httpVars, args, retryVars, logVars, memoVars>>

\* The session and the response a task's __aenter__ creates.
SessionOf(t) == IF t = 1 THEN "wsession1" ELSE "wsession2"
ResponseOf(t) == IF t = 1 THEN "wresponse1" ELSE "wresponse2"

SharedGetErrors == {Exc("aiohttp.ClientError", 0)}
SharedBlockErrors == {Exc("ValueError", 1)}

\* __init__: one instance, then both tasks are created
SharedInit ==
    /\ cell = "none" /\ pc = "idle"
    /\ cell' = "shared"
    /\ self' = [session |-> None, response |-> None]
    /\ tpc' = [t \in Tasks |-> "aenter"]
    /\ UNCHANGED <<pc, events, exc, raised, returned, open, texc, closing, notShared>>

\* __aenter__: self.session = aiohttp.ClientSession(), up to the await of get
SharedEnterSession(t) ==
    /\ cell = "shared" /\ tpc[t] = "aenter"
    /\ self' = [self EXCEPT !.session = SessionOf(t)]
    /\ open' = open \cup {SessionOf(t)}
    /\ events' = Append(events, Ev("open", SessionOf(t), t, 0))
    /\ tpc' = [tpc EXCEPT ![t] = "get"]
    /\ UNCHANGED <<cell, pc, exc, raised, returned, texc, closing, notShared>>

\* __aenter__: self.response = await self.session.get(url); return self.
\* The request was issued on the session this task created.
SharedEnterGet(t) ==
    /\ cell = "shared" /\ tpc[t] = "get"
    /\ \/ /\ self' = [self EXCEPT !.response = ResponseOf(t)]
          /\ open' = open \cup {ResponseOf(t)}
          /\ events' = Append(events, Ev("open", ResponseOf(t), t, 0))
          /\ tpc' = [tpc EXCEPT ![t] = "block"]
          /\ UNCHANGED texc
       \/ \E e \in SharedGetErrors :
            /\ events' = Append(events, Ev("get_failed", e.cls, t, 0))
            /\ texc' = [texc EXCEPT ![t] = e]
            /\ tpc' = [tpc EXCEPT ![t] = "left"]
            /\ UNCHANGED <<self, open>>
    /\ UNCHANGED <<cell, pc, exc, raised, returned, closing, notShared>>

\* The block of the task's async with statement (it awaits, so the other
\* task may run before and after it).
SharedBlock(t) ==
    /\ cell = "shared" /\ tpc[t] = "block"
    /\ \/ UNCHANGED texc
       \/ \E e \in SharedBlockErrors : texc' = [texc EXCEPT ![t] = e]
    /\ tpc' = [tpc EXCEPT ![t] = "aexit"]
    /\ UNCHANGED <<cell, pc, events, exc, raised, returned, open, self, closing, notShared>>

\* __aexit__: if self.response: self.response.close();
\* if self.session: await self.session.close()  (the call is made)
SharedExit(t) ==
    /\ cell = "shared" /\ tpc[t] = "aexit"
    /\ events' = events
                 \o (IF self.response # None THEN <<Ev("close", self.response, t, 0)>> ELSE <<>>)
                 \o (IF self.session # None THEN <<Ev("close_begin", self.session, t, 0)>> ELSE <<>>)
    /\ open' = IF self.response # None THEN open \ {self.response} ELSE open
    /\ closing' = [closing EXCEPT ![t] = self.session]
    /\ tpc' = [tpc EXCEPT ![t] = IF self.session # None THEN "closing" ELSE "aexit_log"]
    /\ UNCHANGED <<cell, pc, exc, raised, returned, self, texc, notShared>>

\* __aexit__: the awaited close completes; if exc_type: print(error)
SharedSessionClosed(t) ==
    /\ cell = "shared" /\ tpc[t] = "closing"
    /\ events' = events \o <<Ev("close", closing[t], t, 0)>>
                        \o (IF texc[t] # NoExc THEN <<Ev("print_error", texc[t].cls, t, 0)>> ELSE <<>>)
    /\ open' = open \ {closing[t]}
    /\ tpc' = [tpc EXCEPT ![t] = "left"]
    /\ UNCHANGED <<cell, pc, exc, raised, returned, self, texc, closing, notShared>>

NextShared ==
    \/ SharedInit
    \/ \E t \in Tasks : SharedEnterSession(t)
    \/ \E t \in Tasks : SharedEnterGet(t)
    \/ \E t \in Tasks : SharedBlock(t)
    \/ \E t \in Tasks : SharedExit(t)
    \/ \E t \in Tasks : SharedSessionClosed(t)

SpecShared == Init /\ [][NextShared]_vars

-----------------------------------------------------------------------------
(* @lru_cache on calculations.  The notebook's calculations takes no          *)
(* argument (one argument set, the empty one, here key 0); the cached          *)
(* function is modelled with one hashable argument so that several argument   *)
(* sets exist.  A bare @lru_cache is lru_cache(maxsize=128, typed=False).     *)

LruMaxsize == 128

notMemo == <<dbVars, fileVars, weatherVars, httpVars, args, retryVars, logVars, sharedVars>>

\* The body of the decorated function: it returns normally, with a value
\* that tells the arguments apart.
Calculations(k) == k

\* A slip: the decorator without effect (as with maxsize=0): never a hit.
LookupNothing(c, k) == 0

\* The position in the cache of the entry for argument k, 0 if there is none.
Lookup(c, k) == IF \E i \in 1..Len(c) : c[i].key = k
                THEN CHOOSE i \in 1..Len(c) : c[i].key = k
                ELSE 0

\* Sequence c without its i-th element.
Without(c, i) == SubSeq(c, 1, i - 1) \o SubSeq(c, i + 1, Len(c))

\* A slip: the oldest entry is dropped one entry early.
IsFullEarly(c) == Len(c) >= LruMaxsize - 1

\* The cache holds maxsize entries: the next new entry replaces the oldest.
IsFull(c) == Len(c) >= LruMaxsize

\* One call of the cached function with argument k: a hit returns the stored
\* value and makes the entry the most recently used; a miss runs the body,
\* stores the value, evicting the least recently used entry of a full cache,
\* and returns it.
LruCall(k) ==
    /\ cell = "memo"
    /\ IF Lookup(cache, k) # 0
       THEN /\ returned' = Ret(cache[Lookup(cache, k)].value)
            /\ cache' = Append(Without(cache, Lookup(cache, k)), cache[Lookup(cache, k)])
            /\ execs' = execs
            /\ run' = IF run.key = k THEN run ELSE [key |-> k, fresh |-> FALSE, execs |-> 0]
       ELSE /\ returned' = Ret(Calculations(k))
            /\ cache' = Append(IF IsFull(cache) THEN Tail(cache) ELSE cache,
                               [key |-> k, value |-> Calculations(k)])
            /\ execs' = [execs EXCEPT ![k] = @ + 1]
            /\ run' = IF run.key = k
                      THEN [run EXCEPT !.execs = @ + 1]
                      ELSE [key |-> k, fresh |-> execs[k] = 0, execs |-> 1]
    /\ used' = IF execs[k] = 0 THEN used + 1 ELSE used
    /\ UNCHANGED <<cell, pc, events, exc, raised, open, notMemo>>

\* The decorator is applied: an empty cache
MemoStart ==
    /\ cell = "none" /\ pc = "idle"
    /\ cell' = "memo"
    /\ cache' = <<>> /\ execs' = [k \in Keys |-> 0] /\ used' = 0 /\ run' = NoRun
    /\ UNCHANGED <<pc, events, exc, raised, returned, open, notMemo>>

\* A call with an argument never used before (the first call of the notebook).
MemoCallNew == used \in Keys /\ LruCall(used)

\* A call with the argument of the call before (the notebook's second and
\* third call).
MemoCallAgain == run.key \in Keys /\ LruCall(run.key)

\* A call with the argument of the very first call.
MemoCallFirst == used > 0 /\ LruCall(0)

NextMemo == MemoStart \/ MemoCallNew \/ MemoCallAgain \/ MemoCallFirst

SpecMemo == Init /\ [][NextMemo]_vars

-----------------------------------------------------------------------------
(* Properties *)

\* The call of utility c has ended and control is back at the caller.
Left(c) == cell = c /\ pc = "left"

\* The exception the block of the with statement raised (serial 1).
BlockError == Exc(OpsOf(events, "block_raised")[1].arg, 1)
BlockRaised == Count(events, "block_raised") = 1
BlockCompleted == Count(events, "block") = 1

\* C1: db_connection, failure path.  Whenever the block raised a failure of
\* any exception kind after the connection was acquired, rollback was called
\* before close, commit was not called, and the same failure reached the caller.
C1_RollbackOnAnyFailure ==
    (Left("db") /\ BlockRaised) =>
        /\ Before(events, "rollback", "close")
        /\ Count(events, "commit") = 0
        /\ raised = BlockError

\* C2: db_connection, success path.  Whenever the block completed normally and
\* commit did not fail, commit was called exactly once and then close, rollback
\* was never called, the connection is closed and no failure reached the caller.
C2_CommitThenClose ==
    (Left("db") /\ BlockCompleted /\ Count(events, "commit_failed") = 0) =>
        /\ Count(events, "commit") = 1
        /\ Count(events, "close") = 1
        /\ Before(events, "commit", "close")
        /\ Count(events, "rollback") = 0
        /\ "conn" \notin open
        /\ raised = NoExc

C2_Witness == Left("db") /\ BlockCompleted /\ Count(events, "commit") = 1

\* C3: release exactly once.  For db_connection and open_file, once the
\* acquisition has succeeded, close has been called on the handle exactly once
\* and the handle is closed when the with statement is left, on every exit
\* path: normal return, a failure raised in the block, a failure of commit.
C3_ClosedExactlyOnce ==
    /\ (Left("db") /\ Count(events, "connect") = 1) =>
           (Count(events, "close") = 1 /\ "conn" \notin open)
    /\ (Left("file") /\ Count(events, "open") = 1) =>
           (Count(events, "close") = 1 /\ "file" \notin open)
    /\ cell \in {"db", "file"} => Count(events, "close") <= 1

C3_Witness == Left("db") /\ Count(events, "commit_failed") = 1 /\ Count(events, "close") = 1

\* C4: acquisition failure.  If sqlite3.connect or open itself failed, the block
\* never ran, no commit, rollback or close was attempted, and the failure of
\* the acquisition reached the caller.
C4_AcquisitionFailure ==
    /\ (Left("db") /\ Count(events, "connect_failed") = 1) =>
           /\ ~BlockCompleted /\ ~BlockRaised
           /\ Count(events, "commit") + Count(events, "commit_failed") = 0
           /\ Count(events, "rollback") = 0
           /\ Count(events, "close") = 0
           /\ raised = Exc(OpsOf(events, "connect_failed")[1].arg, 0)
    /\ (Left("file") /\ Count(events, "open_failed") = 1) =>
           /\ ~BlockCompleted /\ ~BlockRaised
           /\ Count(events, "close") = 0
           /\ raised = Exc(OpsOf(events, "open_failed")[1].arg, 0)

C4_Witness == Left("db") /\ raised = Exc("sqlite3.OperationalError", 0)

\* C5: network sessions are closed on every exit path.  For AsyncWeatherFetcher
\* and async_http_client, every session the wrapper opened is closed when
\* control has left the async with statement: after normal completion of the
\* block, a failure in it, cancellation, and a failure of session.get in
\* __aenter__.
C5_SessionsClosedOnEveryExit ==
    (pc = "left" /\ cell \in {"weather", "http"}) =>
        open \cap {"wsession", "hsession"} = {}

\* C6: async_http_client, failure path.  When the block raised a failure, the
\* session was closed exactly once, the close had completed when the failure
\* reached the caller, the failure was logged exactly once, the 'finished
\* successfully' message was not printed, and the original failure was re-raised.
C6_HttpFailurePath ==
    /\ (Left("http") /\ BlockRaised /\ IsException(BlockError)) =>
           /\ Count(events, "close_begin") = 1
           /\ Count(events, "close") = 1
           /\ "hsession" \notin open
           /\ Count(events, "print_error") = 1
           /\ Count(events, "print_finished") = 0
           /\ raised = BlockError
    /\ (cell = "http" /\ raised # NoExc) => Count(events, "close") = 1

C6_Witness == Left("http") /\ raised = Exc("ValueError", 1) /\ Count(events, "print_error") = 1

\* The index of the first call of the callable that succeeds (one past the
\* last index if none does).
FirstSuccess == IF \E i \in DOMAIN draws : ~draws[i]
                THEN CHOOSE i \in DOMAIN draws : ~draws[i] /\ \A j \in 1..(i - 1) : draws[j]
                ELSE Len(draws) + 1

\* C7: retry, stop at first success.  For every tries >= 1 and every sequence
\* of outcomes of the attempts, the callable was invoked exactly min(k, tries)
\* times, k the index of the first succeeding attempt (tries if none succeeds);
\* if attempt k <= tries succeeded, its value was returned unchanged and no
\* later attempt was made.
C7_StopAtFirstSuccess ==
    (Left("retry") /\ tries >= 1) =>
        /\ Count(events, "call") = Min(FirstSuccess, tries)
        /\ \A i \in 1..Count(events, "call") : OpsOf(events, "call")[i].n = i
        /\ FirstSuccess <= tries =>
              /\ raised = NoExc
              /\ returned = Ret(Cube(args))
              /\ events[Len(events)] = Ev("call", "ok", FirstSuccess, Cube(args))

C7_Witness == Left("retry") /\ tries = 3 /\ FirstSuccess = 2 /\ returned = Ret(8)

\* C8: retry, exhaustion.  If all `tries` attempts failed (tries >= 1, so that
\* there is a last attempt), the wrapper raised to the caller exactly the
\* failure of the last attempt, after exactly `tries` invocations of the callable.
C8_LastFailureRaised ==
    (Left("retry") /\ tries >= 1 /\ FirstSuccess > tries) =>
        /\ raised = AttemptError(tries - 1)
        /\ Count(events, "call") = tries
        /\ returned = NoResult

C8_Witness == Left("retry") /\ tries = 3 /\ raised = AttemptError(2)

\* The positions of the calls of the callable in the trace.
CallPositions == {i \in 1..Len(events) : events[i].op = "call"}

\* The failed calls of the callable in the trace.
FailedCalls == SelectSeq(events, LAMBDA e : e.op = "call" /\ e.arg = "raised")

\* C9: retry, waits.  Within one call of the wrapped function the wrapper slept,
\* for the constant delay, exactly once after each failed attempt that was not
\* attempt number `tries` and never after the final attempt or a successful
\* one; every sleep lies between two consecutive attempts; and, when there is
\* an attempt at all (tries >= 1), the number of sleeps is
\* min(failed attempts, tries - 1).
C9_SleepsBetweenAttempts ==
    Left("retry") =>
        /\ Count(events, "sleep") = Len(SelectSeq(FailedCalls, LAMBDA e : e.n # tries))
        /\ tries >= 1 => Count(events, "sleep") = Min(Len(FailedCalls), tries - 1)
        /\ \A i \in 1..Len(events) : events[i].op = "sleep" =>
              /\ events[i].n = delay
              /\ \E a, b \in CallPositions :
                    /\ a < i /\ i < b
                    /\ events[a].arg = "raised"
                    /\ events[b].n = events[a].n + 1
                    /\ \A j \in (a + 1)..(b - 1) : events[j].op = "sleep" => j = i

C9_Witness == Left("retry") /\ tries = 3 /\ Count(events, "sleep") = 2 /\ raised # NoExc

\* C10: log wrapper, success path.  One invocation that completes emitted
\* exactly one 'Starting' log before the wrapped coroutine was invoked, invoked
\* it exactly once with the same arguments, emitted exactly one 'Result' log
\* after it completed and before returning, and returned exactly the value
\* the wrapped coroutine returned.
C10_LogSuccessPath ==
    (Left("log") /\ raised = NoExc) =>
        /\ events = << Ev("print_start", "cube", args, 0),
                       Ev("call", "ok", args, Cube(args)),
                       Ev("print_result", "", Cube(args), 0) >>
        /\ returned = Ret(Cube(args))

C10_Witness == Left("log") /\ args = 2 /\ returned = Ret(8) /\ Count(events, "print_result") = 1

\* C11: log wrapper, failure path.  If the wrapped coroutine raised, the
\* wrapper had emitted the 'Starting' log exactly once, emitted no 'Result' log,
\* did not call the coroutine again, and the same failure reached the caller.
C11_LogFailurePath ==
    (Left("log") /\ Count(events, "raise") > 0) =>
        /\ events = << Ev("print_start", "cube", args, 0),
                       Ev("call", "raised", args, 0),
                       Ev("raise", raised.cls, raised.at, 0) >>
        /\ raised \in LogErrors
        /\ returned = NoResult

C11_Witness == Left("log") /\ raised = Exc("ValueError", 1) /\ Count(events, "print_start") = 1

\* C14: AsyncWeatherFetcher, exit ordering.  When the block is left after a
\* successful enter, __aexit__ closed the response before the session, each
\* exactly once; if the block raised, the failure was logged only after both
\* closes had completed and then reached the caller.
C14_ResponseThenSession ==
    (Left("weather") /\ Count(events, "get") = 1) =>
        /\ SelectSeq(events, LAMBDA e : e.op \in {"close", "print_error"}) =
               <<Op("close", "wresponse"), Op("close", "wsession")>>
               \o (IF BlockRaised THEN <<Op("print_error", BlockError.cls)>> ELSE <<>>)
        /\ Count(events, "close_begin") = 1
        /\ raised = (IF BlockRaised THEN BlockError ELSE NoExc)

C14_Witness == Left("weather") /\ raised = Exc("ValueError", 1) /\ Count(events, "print_error") = 1

\* C15: retry, failure reporting.  Within one call of the wrapped function every
\* failed attempt, the last included, was reported by exactly one log line with
\* its 1-based attempt number and the configured tries, emitted right after that
\* attempt (before the next attempt or the final raise); the numbers logged are
\* 1, 2, ... without gap, and a successful attempt logged nothing.
C15_EveryFailureLogged ==
    Left("retry") =>
        /\ Len(OpsOf(events, "print_failed")) = Len(FailedCalls)
        /\ \A i \in 1..Len(OpsOf(events, "print_failed")) :
               OpsOf(events, "print_failed")[i] = Ev("print_failed", "ValueError", i, tries)
        /\ \A p \in 1..Len(events) :
              /\ (events[p].op = "call" /\ events[p].arg = "raised") =>
                     (p < Len(events) /\ events[p + 1] = Ev("print_failed", "ValueError", events[p].n, tries))
              /\ (events[p].op = "call" /\ events[p].arg = "ok") => p = Len(events)

C15_Witness == Left("retry") /\ tries = 3 /\ Count(events, "print_failed") = 3

\* C16: retry, the outcome is always the callable's own.  For every integer
\* tries, 0 and negative values included, a call of the wrapped function invoked
\* the callable at least once and ended by returning a value the callable
\* returned or by raising a failure the callable raised.
C16_OutcomeIsTheCallables ==
    Left("retry") =>
        /\ Count(events, "call") >= 1
        /\ \/ /\ raised = NoExc
              /\ returned = Ret(Cube(args))
              /\ events[Len(events)] = Ev("call", "ok", Count(events, "call"), Cube(args))
           \/ \E i \in 1..Len(FailedCalls) : raised = AttemptError(FailedCalls[i].n - 1)

\* C18: db_connection, commit failure.  If the block completed normally but
\* commit raised a database error, rollback was called after the failed commit
\* and before close, close was called exactly once, and the error of the commit
\* reached the caller.
C18_CommitFailureRolledBack ==
    (Left("db") /\ Count(events, "commit_failed") = 1) =>
        /\ SelectSeq(events, LAMBDA e : e.op \in {"commit", "commit_failed", "rollback", "close"}) =
               <<Op("commit_failed", "conn"), Op("rollback", "conn"), Op("close", "conn")>>
        /\ BlockCompleted
        /\ "conn" \notin open
        /\ raised \in CommitErrors

C18_Witness == Left("db") /\ raised = Exc("sqlite3.OperationalError", 2) /\ Count(events, "rollback") = 1

\* C17: get_weather guard.  get_weather raised RuntimeError whenever it was
\* called while the fetcher was not inside an active `async with` block, both
\* before the fetcher was entered and after its block was exited; it read the
\* response body only between a successful __aenter__ and the matching __aexit__.
C17_GetWeatherGuard ==
    cell = "weather" =>
        \A i \in 1..Len(events) :
            /\ events[i].op = "get_weather_raised" => events[i].arg # "inside"
            /\ events[i].op = "get_weather_read" => events[i].arg = "inside"

\* The handles opened so far, and how often close was called on handle h.
Opened == {events[i].arg : i \in {j \in 1..Len(events) : events[j].op = "open"}}
ClosesOf(h) == Len(SelectSeq(events, LAMBDA e : e.op = "close" /\ e.arg = h))

\* Both tasks entered their blocks and the second session was opened before
\* anything was closed: the two lifetimes overlap.
Overlapped ==
    /\ Count(events, "get_failed") = 0
    /\ \A t \in Tasks : tpc[t] \in {"block", "aexit", "closing", "left"}
    /\ \E i, j \in 1..Len(events) :
          /\ i < j
          /\ events[i] = Ev("open", "wsession1", 1, 0) \/ events[i] = Ev("open", "wsession2", 2, 0)
          /\ events[j] = Ev("open", "wsession1", 1, 0) \/ events[j] = Ev("open", "wsession2", 2, 0)
          /\ \A k \in 1..j : events[k].op # "close"

\* C19: shared AsyncWeatherFetcher instance.  When two cooperative tasks use the
\* same instance with overlapping lifetimes, under every interleaving of their
\* __aenter__ and __aexit__ steps each session and response opened was closed
\* exactly once and none remains open after both blocks have exited.
C19_SharedInstanceClosesAll ==
    (cell = "shared" /\ Overlapped /\ \A t \in Tasks : tpc[t] = "left") =>
        /\ open = {}
        /\ \A h \in Opened : ClosesOf(h) = 1

\* C12: memoizing wrapper, hit and miss.  Invoking the cached callable with the
\* same argument set N >= 1 times in a row executed the underlying callable
\* exactly once (not at all if that argument set's entry was already cached)
\* and every one of the N calls returned the value computed for it; a call
\* with an argument set not seen before executed the underlying callable once more.
C12_HitAndMiss ==
    (cell = "memo" /\ run.key \in Keys) =>
        /\ run.execs <= 1
        /\ run.fresh => run.execs = 1
        /\ returned = Ret(Calculations(run.key))
        /\ execs[run.key] >= 1
        /\ used = Cardinality({k \in Keys : execs[k] > 0})

C12_Witness == cell = "memo" /\ used = 2 /\ run = [key |-> 1, fresh |-> TRUE, execs |-> 1] /\ returned = Ret(1)

=============================================================================
